---- MODULE Spec2Model ----
(***************************************************************************)
(* Model of the totems assertion macros (collections.rs, enums.rs,         *)
(* inequalities.rs).  Every macro is a pure evaluate-and-report operation: *)
(* it is modelled as an operator that returns the outcome of one call      *)
(* ("ok" = returns normally, "panic") and the panic message, and as an     *)
(* action that performs one call on inputs drawn from bounded sets.        *)
(*                                                                         *)
(* Values are sequences of scalars: a scalar x is <<x>>, a pair (a, b) is  *)
(* <<a, b>>.  The scalar type is a PartialOrd type with one value, NaN,    *)
(* that is incomparable with every value, itself included.                 *)
(* A panic message is the sequence of the pieces of the format string and  *)
(* the rendered arguments, in order.                                       *)
(***************************************************************************)
EXTENDS Integers, Sequences, FiniteSets, TLC

\* call: the macro invocation of the running test (macro, call form, source
\* text / description, and the values of its arguments);
\* result: how the invocation ended, and the panic message;
\* evals: how many times the expansion evaluated each argument expression;
\* after: the caller's collection, subject and value once the call is over
VARIABLES call, result, evals, after

\* a test function that runs a sequence of assertions:
\* body: its assertions; pc: the assertion to run next; status: "running",
\* "passed" or "panicked"; ran: how many times each assertion was evaluated;
\* report: the panic message the test ended with
VARIABLES body, pc, status, ran, report

\* test functions that the harness runs on parallel threads:
\* ptest: the assertion of each thread; ppc: where the thread is in the
\* expansion; ptmp: the operands bound by the match of the expansion;
\* pres: the outcome of each thread
VARIABLES ptest, ppc, ptmp, pres

callVars == <<call, result, evals, after>>
testVars == <<body, pc, status, ran, report>>
parVars == <<ptest, ppc, ptmp, pres>>
vars == <<call, result, evals, after, body, pc, status, ran, report,
          ptest, ppc, ptmp, pres>>

(***************************************************************************)
(* Bounds                                                                  *)
(***************************************************************************)
MaxVal == 2
MaxLen == 2
MaxKey == 1

\* the incomparable value of the scalar type
NaN == MaxVal + 1

Scalars == 0..NaN
ScalarVals == {<<s>> : s \in Scalars}
\* a key is never NaN (keys are Eq)
PairVals == {<<k, s>> : k \in 0..MaxKey, s \in Scalars}
Ops == {"==", "!=", "<", "<=", ">", ">="}
Positions == 0..(MaxLen + 1)

SeqsUpTo(S, n) == UNION {[1..k -> S] : k \in 0..n}

VecCollections == {[kind |-> "vec", items |-> s] : s \in SeqsUpTo(ScalarVals, MaxLen)}

\* a map holds one value per key; it is iterated as (key, value) pairs in an
\* arbitrary order
MapCollections ==
    {[kind |-> "map", items |-> s] :
        s \in {t \in SeqsUpTo(PairVals, MaxLen) :
                  \A i, j \in 1..Len(t) : i # j => t[i][1] # t[j][1]}}

Collections == VecCollections \cup MapCollections

ElemsOf(c) == IF c.kind = "vec" THEN ScalarVals ELSE PairVals

\* predicates |x| ... over the elements, given by the set of elements they
\* accept; a predicate over pairs tests the value of the pair
PredsOf(c) ==
    IF c.kind = "vec" THEN SUBSET ScalarVals
    ELSE {{p \in PairVals : p[2] \in S} : S \in SUBSET Scalars}

Descriptions == {"all > 0"}

(***************************************************************************)
(* PartialEq / PartialOrd                                                  *)
(***************************************************************************)
ScalarCmp(a, b) ==
    IF a = NaN \/ b = NaN THEN "None"
    ELSE IF a < b THEN "Less"
    ELSE IF a > b THEN "Greater"
    ELSE "Equal"

RECURSIVE partial_cmp(_, _)
partial_cmp(x, y) ==
    IF x = <<>> \/ y = <<>> THEN "Equal"
    ELSE LET c == ScalarCmp(Head(x), Head(y))
         IN  IF c # "Equal" THEN c ELSE partial_cmp(Tail(x), Tail(y))

PEq(x, y) == partial_cmp(x, y) = "Equal"
PNe(x, y) == ~PEq(x, y)
PLt(x, y) == partial_cmp(x, y) = "Less"
PLe(x, y) == partial_cmp(x, y) \in {"Less", "Equal"}
PGt(x, y) == partial_cmp(x, y) = "Greater"
PGe(x, y) == partial_cmp(x, y) \in {"Greater", "Equal"}

\* the standard meaning of "x op y"
Holds(o, x, y) ==
    CASE o = "==" -> PEq(x, y)
      [] o = "!=" -> PNe(x, y)
      [] o = "<"  -> PLt(x, y)
      [] o = "<=" -> PLe(x, y)
      [] o = ">"  -> PGt(x, y)
      [] o = ">=" -> PGe(x, y)

(***************************************************************************)
(* Debug rendering ({:?})                                                  *)
(***************************************************************************)
DebugScalar(s) == IF s = NaN THEN "NaN" ELSE ToString(s)

Debug(v) ==
    IF Len(v) = 1 THEN DebugScalar(v[1])
    ELSE "(" \o DebugScalar(v[1]) \o ", " \o DebugScalar(v[2]) \o ")"

DebugEntry(kind, v) ==
    IF kind = "vec" THEN Debug(v)
    ELSE DebugScalar(v[1]) \o ": " \o DebugScalar(v[2])

RECURSIVE DebugItems(_, _)
DebugItems(kind, s) ==
    IF s = <<>> THEN ""
    ELSE IF Len(s) = 1 THEN DebugEntry(kind, s[1])
    ELSE DebugEntry(kind, s[1]) \o ", " \o DebugItems(kind, Tail(s))

DebugCollection(c) ==
    IF c.kind = "vec" THEN "[" \o DebugItems("vec", c.items) \o "]"
    ELSE "{" \o DebugItems("map", c.items) \o "}"

(***************************************************************************)
(* Outcomes                                                                *)
(***************************************************************************)
Pass == [outcome |-> "ok", msg |-> <<>>]
Panic(m) == [outcome |-> "panic", msg |-> m]

None == [arm |-> "None", inner |-> <<>>]
Some(v) == [arm |-> "Some", inner |-> v]

(***************************************************************************)
(* Iterator adaptors used by the collection macros                         *)
(***************************************************************************)
\* mutant of IterFind: only the first element is compared
IterFind_FirstOnly(s, item) ==
    IF s = <<>> THEN None
    ELSE IF PEq(Head(s), item) THEN Some(Head(s))
    ELSE None

\* into_iter().find(|&x| x == item)
RECURSIVE IterFind(_, _)
IterFind(s, item) ==
    IF s = <<>> THEN None
    ELSE IF PEq(Head(s), item) THEN Some(Head(s))
    ELSE IterFind(Tail(s), item)

\* mutant of IterAll: only the first element is tested
IterAll_FirstOnly(s, P) == s = <<>> \/ Head(s) \in P

\* into_iter().all(predicate)
RECURSIVE IterAll(_, _)
IterAll(s, P) ==
    IF s = <<>> THEN TRUE
    ELSE IF Head(s) \notin P THEN FALSE
    ELSE IterAll(Tail(s), P)

\* mutant of IterAny: only the first element is tested
IterAny_FirstOnly(s, P) == s # <<>> /\ Head(s) \in P

\* into_iter().any(predicate)
RECURSIVE IterAny(_, _)
IterAny(s, P) ==
    IF s = <<>> THEN FALSE
    ELSE IF Head(s) \in P THEN TRUE
    ELSE IterAny(Tail(s), P)

\* mutant of IterNth: a position past the end yields the last element
IterNth_Clamped(s, n) ==
    IF s = <<>> THEN None
    ELSE IF n < Len(s) THEN Some(s[n + 1])
    ELSE Some(s[Len(s)])

\* into_iter().nth(n): skip n elements, yield the next one
RECURSIVE IterNth(_, _)
IterNth(s, n) ==
    IF s = <<>> THEN None
    ELSE IF n = 0 THEN Some(Head(s))
    ELSE IterNth(Tail(s), n - 1)

(***************************************************************************)
(* collections.rs                                                          *)
(***************************************************************************)
\* mutant of assert_contains: the arguments of the panic are swapped
assert_contains_SwappedArgs(c, item) ==
    IF IterFind(c.items, item) = None
    THEN Panic(<<"assertion failed: (collection contains item)\n       item: ",
                 DebugCollection(c), "\n collection: ", Debug(item), "\n">>)
    ELSE Pass

assert_contains(c, item) ==
    IF IterFind(c.items, item) = None
    THEN Panic(<<"assertion failed: (collection contains item)\n       item: ",
                 Debug(item), "\n collection: ", DebugCollection(c), "\n">>)
    ELSE Pass

assert_all(c, P) ==
    IF FALSE = IterAll(c.items, P)
    THEN Panic(<<"assertion failed: (all elements of collection match predicate) collection: ",
                 DebugCollection(c), "\n">>)
    ELSE Pass

assert_all_desc(c, P, desc) ==
    IF FALSE = IterAll(c.items, P)
    THEN Panic(<<"assertion failed: (all elements of collection match predicate)\n  predicate: ",
                 desc, "\n collection: ", DebugCollection(c), "\n">>)
    ELSE Pass

\* mutant of assert_any: the arm without a description reports a default
\* predicate line
assert_any_Labelled(c, P) ==
    IF FALSE = IterAny(c.items, P)
    THEN Panic(<<"assertion failed: (any element of collection matches predicate)\n  predicate: ",
                 "predicate", "\n collection: ", DebugCollection(c), "\n">>)
    ELSE Pass

assert_any(c, P) ==
    IF FALSE = IterAny(c.items, P)
    THEN Panic(<<"assertion failed: (any element of collection matches predicate) collection: ",
                 DebugCollection(c), "\n">>)
    ELSE Pass

assert_any_desc(c, P, desc) ==
    IF FALSE = IterAny(c.items, P)
    THEN Panic(<<"assertion failed: (any element of collection matches predicate)\n  predicate: ",
                 desc, "\n collection: ", DebugCollection(c), "\n">>)
    ELSE Pass

\* the condition under which the arm "value op $val" of assert_nth! panics
NthPanics(o, value, v) ==
    CASE o = "==" -> PNe(value, v)
      [] o = "!=" -> PEq(value, v)
      [] o = "<"  -> PGe(value, v)
      [] o = "<=" -> PGt(value, v)
      [] o = ">"  -> PLe(value, v)
      [] o = ">=" -> PLt(value, v)

\* mutant of assert_nth: a missing position satisfies "!="
assert_nth_AbsentIsNe(c, n, o, v) ==
    LET nth == IterNth(c.items, n)
    IN  IF nth.arm = "Some"
        THEN IF NthPanics(o, nth.inner, v)
             THEN Panic(<<"assertion failed: (collection[", ToString(n), "] ", o,
                          " item)\n         item: ", Debug(v),
                          "\ncollection[", ToString(n), "]: ", Debug(nth.inner), "\n">>)
             ELSE Pass
        ELSE IF o = "!=" THEN Pass
        ELSE Panic(<<"assertion failed: (collection[", ToString(n), "] ", o,
                     " item)\n collection[", ToString(n), "] does not exist\n">>)

assert_nth(c, n, o, v) ==
    LET nth == IterNth(c.items, n)
    IN  IF nth.arm = "Some"
        THEN IF NthPanics(o, nth.inner, v)
             THEN Panic(<<"assertion failed: (collection[", ToString(n), "] ", o,
                          " item)\n         item: ", Debug(v),
                          "\ncollection[", ToString(n), "]: ", Debug(nth.inner), "\n">>)
             ELSE Pass
        ELSE Panic(<<"assertion failed: (collection[", ToString(n), "] ", o,
                     " item)\n collection[", ToString(n), "] does not exist\n">>)

(***************************************************************************)
(* iterators.rs: a second definition of assert_contains!                   *)
(***************************************************************************)
\* mutant of iterators_assert_contains: the panic shows the item only
iterators_assert_contains_ItemOnly(c, item) ==
    IF IterFind(c.items, item) = None
    THEN Panic(<<"assertion failed: (collection contains item)\n       item: ",
                 Debug(item), "\n">>)
    ELSE Pass

iterators_assert_contains(c, item) ==
    IF IterFind(c.items, item) = None
    THEN Panic(<<"assertion failed: (collection contains item)\n       item: ",
                 Debug(item), "\n collection: ", DebugCollection(c), "\n">>)
    ELSE Pass

(***************************************************************************)
(* enums.rs                                                                *)
(***************************************************************************)
Ok(v) == [arm |-> "Ok", inner |-> v]
Err(v) == [arm |-> "Err", inner |-> v]

InnerVals == ScalarVals \cup PairVals
Results == {Ok(v) : v \in InnerVals} \cup {Err(v) : v \in InnerVals}
Options == {Some(v) : v \in InnerVals} \cup {None}
\* the values of the type of v
SameType(v) == IF Len(v) = 1 THEN ScalarVals ELSE PairVals

ResultTexts == {"&result", "result"}
OptionTexts == {"&option"}

\* {:?} of a Result or an Option
DebugEnum(e) ==
    IF e.arm = "None" THEN "None" ELSE e.arm \o "(" \o Debug(e.inner) \o ")"

\* the condition under which the arm "value op $value" of assert_ok! panics
OkPanics(o, v, value) ==
    CASE o = "==" -> PNe(v, value)
      [] o = "!=" -> PEq(v, value)
      [] o = "<"  -> PGe(v, value)
      [] o = "<=" -> PGt(v, value)
      [] o = ">"  -> PLe(v, value)
      [] o = ">=" -> PLt(v, value)

\* mutant of assert_ok: the panic shows the expression text only
assert_ok_NoValue(t, r) ==
    IF r.arm = "Err"
    THEN Panic(<<"assertion failed: (", t, " is Ok(_))\n">>)
    ELSE Pass

assert_ok(t, r) ==
    IF r.arm = "Err"
    THEN Panic(<<"assertion failed: (", t, " is Ok(_))\n ", t, ": ", DebugEnum(r), "\n">>)
    ELSE Pass

\* mutant of assert_ok_cmp: the arm check is left out
assert_ok_cmp_NoArmCheck(t, r, o, value) ==
    IF r.arm = "Ok" /\ OkPanics(o, r.inner, value)
    THEN Panic(<<"assertion failed: (Ok(left) => { left ", o, " right })\n  left: ",
                 Debug(r.inner), "\n right: ", Debug(value), "\n">>)
    ELSE Pass

assert_ok_cmp(t, r, o, value) ==
    LET arm == assert_ok(t, r)
    IN  IF arm.outcome = "panic" THEN arm
        ELSE IF r.arm = "Ok" /\ OkPanics(o, r.inner, value)
        THEN Panic(<<"assertion failed: (Ok(left) => { left ", o, " right })\n  left: ",
                     Debug(r.inner), "\n right: ", Debug(value), "\n">>)
        ELSE Pass

\* the condition under which the arm "value op $value" of assert_err! panics
ErrPanics(o, v, value) ==
    CASE o = "==" -> PNe(v, value)
      [] o = "!=" -> PEq(v, value)
      [] o = "<"  -> PGe(v, value)
      [] o = "<=" -> PGt(v, value)
      [] o = ">"  -> PLe(v, value)
      [] o = ">=" -> PLt(v, value)

\* mutant of assert_err: the arms are swapped
assert_err_Swapped(t, r) ==
    IF r.arm = "Err"
    THEN Panic(<<"assertion failed: (", t, " is Err(_))\n ", t, ": ", DebugEnum(r), "\n">>)
    ELSE Pass

assert_err(t, r) ==
    IF r.arm = "Ok"
    THEN Panic(<<"assertion failed: (", t, " is Err(_))\n ", t, ": ", DebugEnum(r), "\n">>)
    ELSE Pass

assert_err_cmp(t, r, o, value) ==
    LET arm == assert_err(t, r)
    IN  IF arm.outcome = "panic" THEN arm
        ELSE IF r.arm = "Err" /\ ErrPanics(o, r.inner, value)
        THEN Panic(<<"assertion failed: (Err(left) => { left ", o, " right })\n  left: ",
                     Debug(r.inner), "\n right: ", Debug(value), "\n">>)
        ELSE Pass

\* the condition under which the arm "value op $value" of assert_some! panics
SomePanics(o, v, value) ==
    CASE o = "==" -> PNe(v, value)
      [] o = "!=" -> PEq(v, value)
      [] o = "<"  -> PGe(v, value)
      [] o = "<=" -> PGt(v, value)
      [] o = ">"  -> PLe(v, value)
      [] o = ">=" -> PLt(v, value)

assert_some(t, opt) ==
    IF opt.arm = "None"
    THEN Panic(<<"assertion failed: (", t, " is Some(_))\n ", t, ": ", DebugEnum(opt), "\n">>)
    ELSE Pass

assert_some_cmp(t, opt, o, value) ==
    LET arm == assert_some(t, opt)
    IN  IF arm.outcome = "panic" THEN arm
        ELSE IF opt.arm = "Some" /\ SomePanics(o, opt.inner, value)
        THEN Panic(<<"assertion failed: (Some(left) => { left ", o, " right })\n  left: ",
                     Debug(opt.inner), "\n right: ", Debug(value), "\n">>)
        ELSE Pass

\* mutant of assert_none: never panics
assert_none_Never(t, opt) == Pass

assert_none(t, opt) ==
    IF opt.arm = "Some"
    THEN Panic(<<"assertion failed: (", t, " is None)\n ", t, ": ", DebugEnum(opt), "\n">>)
    ELSE Pass

(***************************************************************************)
(* inequalities.rs                                                         *)
(***************************************************************************)
Operand(v) == [arm |-> "val", inner |-> v]
FormatTexts == {"formatted message"}

\* the backquote of the message, which a TLA+ string cannot hold
BQ == "'"

InequalityMsg(o, l, r) ==
    <<"assertion failed: ", BQ, "(left ", o, " right)", BQ, "\n  left: ", BQ, Debug(l),
      BQ, ",\n right: ", BQ, Debug(r), BQ>>

\* mutant of assert_lt: tests <= instead of <
assert_lt_AsLe(l, r) ==
    IF ~PLe(l, r) THEN Panic(InequalityMsg("<", l, r)) ELSE Pass

assert_lt(l, r) ==
    IF ~PLt(l, r) THEN Panic(InequalityMsg("<", l, r)) ELSE Pass

\* ($left, $right,) expands to assert_lt!($left, $right)
assert_lt_trailing(l, r) == assert_lt(l, r)

assert_lt_fmt(l, r, t) ==
    IF ~PLt(l, r) THEN Panic(InequalityMsg("<", l, r) \o <<": ", t>>) ELSE Pass

assert_le(l, r) ==
    IF ~PLe(l, r) THEN Panic(InequalityMsg("<=", l, r)) ELSE Pass

\* mutant of assert_le_trailing: the arm expands to another macro
assert_le_trailing_AsLt(l, r) == assert_lt(l, r)

\* ($left, $right,) expands to assert_le!($left, $right)
assert_le_trailing(l, r) == assert_le(l, r)

assert_le_fmt(l, r, t) ==
    IF ~PLe(l, r) THEN Panic(InequalityMsg("<=", l, r) \o <<": ", t>>) ELSE Pass

assert_gt(l, r) ==
    IF ~PGt(l, r) THEN Panic(InequalityMsg(">", l, r)) ELSE Pass

\* ($left, $right,) expands to assert_gt!($left, $right)
assert_gt_trailing(l, r) == assert_gt(l, r)

\* mutant of assert_gt_fmt: tests >= instead of >
assert_gt_fmt_AsGe(l, r, t) ==
    IF ~PGe(l, r) THEN Panic(InequalityMsg(">", l, r) \o <<": ", t>>) ELSE Pass

assert_gt_fmt(l, r, t) ==
    IF ~PGt(l, r) THEN Panic(InequalityMsg(">", l, r) \o <<": ", t>>) ELSE Pass

\* mutant of assert_ge: tests > instead of >=
assert_ge_AsGt(l, r) ==
    IF ~PGt(l, r) THEN Panic(InequalityMsg(">=", l, r)) ELSE Pass

assert_ge(l, r) ==
    IF ~PGe(l, r) THEN Panic(InequalityMsg(">=", l, r)) ELSE Pass

\* ($left, $right,) expands to assert_ge!($left, $right)
assert_ge_trailing(l, r) == assert_ge(l, r)

assert_ge_fmt(l, r, t) ==
    IF ~PGe(l, r) THEN Panic(InequalityMsg(">=", l, r) \o <<": ", t>>) ELSE Pass

(***************************************************************************)
(* tuples.rs: assert_0th! ... assert_15th!, sixteen copies of one macro    *)
(* that differ in the field they name (and in the padding of the message)  *)
(***************************************************************************)
MaxField == 15
Fields == 0..MaxField

\* tuples of MaxField + 1 fields: every field holds b, but for one that
\* holds w
Tuples ==
    {[i \in 1..(MaxField + 1) |-> IF i = j THEN <<w>> ELSE <<b>>] :
        b \in Scalars, w \in Scalars, j \in 1..(MaxField + 1)}

TupleMacro(N) ==
    "assert_" \o ToString(N) \o
        (CASE N = 1 -> "st" [] N = 2 -> "nd" [] N = 3 -> "rd" [] OTHER -> "th")

TupleMacros == {TupleMacro(N) : N \in Fields}

\* $tuple.N
TupleField(N, tup) == tup[N + 1]

\* mutant of TuplePanics: the "<=" arm tests >= (the test of the "<" arm)
TuplePanics_LeAsLt(o, field, v) ==
    CASE o = "==" -> PNe(field, v)
      [] o = "!=" -> PEq(field, v)
      [] o = "<"  -> PGe(field, v)
      [] o = "<=" -> PGe(field, v)
      [] o = ">"  -> PLe(field, v)
      [] o = ">=" -> PLt(field, v)

\* the condition under which the arm "value op $val" of assert_Nth! panics
TuplePanics(o, field, v) ==
    CASE o = "==" -> PNe(field, v)
      [] o = "!=" -> PEq(field, v)
      [] o = "<"  -> PGe(field, v)
      [] o = "<=" -> PGt(field, v)
      [] o = ">"  -> PLe(field, v)
      [] o = ">=" -> PLt(field, v)

\* mutant of assert_tuple: the arguments of the panic are swapped
assert_tuple_SwappedArgs(N, tup, o, v) ==
    IF TuplePanics(o, TupleField(N, tup), v)
    THEN Panic(<<"assertion failed: (tuple.", ToString(N), " ", o, " val)\n",
                 IF N >= 10 THEN "     val: " ELSE "    val: ",
                 Debug(TupleField(N, tup)), "\ntuple.", ToString(N), ": ", Debug(v), "\n">>)
    ELSE Pass

assert_tuple(N, tup, o, v) ==
    IF TuplePanics(o, TupleField(N, tup), v)
    THEN Panic(<<"assertion failed: (tuple.", ToString(N), " ", o, " val)\n",
                 IF N >= 10 THEN "     val: " ELSE "    val: ", Debug(v),
                 "\ntuple.", ToString(N), ": ", Debug(TupleField(N, tup)), "\n">>)
    ELSE Pass

(***************************************************************************)
(* Chainable checker (ChainOk / ChainSome): the arm check hands the inner  *)
(* value of a validated Ok / Some to a checker with one follow-on          *)
(* operation, "with value"                                                 *)
(***************************************************************************)
\* the checker object holds the validated inner value
Chain(r) == [inner |-> r.inner]

\* mutant of with_value: the comparison is inverted
with_value_Inverted(chain, v) ==
    IF PEq(chain.inner, v) THEN Panic(<<>>) ELSE Pass

\* with value: assert that the inner value equals v
with_value(chain, v) ==
    IF PEq(chain.inner, v) THEN Pass ELSE Panic(<<>>)

\* the stand-alone arm check, then .with_value(v) on the checker it returns
chain_with_value(t, r, v) ==
    LET arm == IF r.arm \in {"Ok", "Err"} THEN assert_ok(t, r) ELSE assert_some(t, r)
    IN  IF arm.outcome = "panic" THEN arm ELSE with_value(Chain(r), v)

(***************************************************************************)
(* How many times an expansion evaluates its argument expressions          *)
(***************************************************************************)
Evals(s, c, n, v, P, t) ==
    [subject |-> s, collection |-> c, position |-> n, val |-> v, pred |-> P,
     text |-> t]

NoEvals == Evals(0, 0, 0, 0, 0, 0)

OnPanic(res, n) == IF res.outcome = "panic" THEN n ELSE 0

\* the number of elements find() hands to the closure |&x| x == $item
RECURSIVE FindCompared(_, _)
FindCompared(s, item) ==
    IF s = <<>> THEN 0
    ELSE IF PEq(Head(s), item) THEN 1
    ELSE 1 + FindCompared(Tail(s), item)

\* assert_contains!: $item once per element compared; $item and $collection
\* again in the panic
contains_evals(c, item, res) ==
    Evals(0, 1 + OnPanic(res, 1), 0, FindCompared(c.items, item) + OnPanic(res, 1), 0, 0)

\* mutant of quantifier_evals: the description is formatted before the test
quantifier_evals_Eager(res, described) ==
    Evals(0, 1 + OnPanic(res, 1), 0, 0, 1, IF described THEN 1 ELSE 0)

\* assert_all! / assert_any!: $collection again and the description in the
\* panic only
quantifier_evals(res, described) ==
    Evals(0, 1 + OnPanic(res, 1), 0, 0, 1, IF described THEN OnPanic(res, 1) ELSE 0)

\* assert_nth!: $val in the comparison if the position exists; $position and
\* $val again in the panic
nth_evals(c, n, res) ==
    IF IterNth(c.items, n).arm = "Some"
    THEN Evals(0, 1, 1 + OnPanic(res, 1), 1 + OnPanic(res, 1), 0, 0)
    ELSE Evals(0, 1, 1 + OnPanic(res, 1), 0, 0, 0)

\* stand-alone arm check: $result in the if let, and again in the panic
arm_evals(res) == Evals(1 + OnPanic(res, 1), 0, 0, 0, 0, 0)

\* comparison form: the arm check, then $result again in the second if let;
\* $value in the comparison and again in the panic
arm_cmp_evals(arm, res) ==
    IF arm.outcome = "panic" THEN arm_evals(arm)
    ELSE Evals(arm_evals(arm).subject + 1, 0, 0, 1 + OnPanic(res, 1), 0, 0)

\* mutant of ordering_evals: the panic evaluates the operand expressions again
ordering_evals_Reevaluated(res, formatted) ==
    Evals(1 + OnPanic(res, 1), 0, 0, 1 + OnPanic(res, 1), 0,
          IF formatted THEN OnPanic(res, 1) ELSE 0)

\* assert_lt! ...: match (&$left, &$right) evaluates each operand once; the
\* format arguments in the panic only
ordering_evals(res, formatted) ==
    Evals(1, 0, 0, 1, 0, IF formatted THEN OnPanic(res, 1) ELSE 0)

\* assert_Nth!: $tuple.N and $val in the comparison and again in the panic
tuple_evals(res) == Evals(1 + OnPanic(res, 1), 0, 0, 1 + OnPanic(res, 1), 0, 0)

\* the checker is built from the validated value and compared once
chain_evals(res) == Evals(1, 0, 0, 1, 0, 0)

(***************************************************************************)
(* What the call leaves of the caller's arguments                          *)
(***************************************************************************)
\* mutant of AfterIter: the iteration takes the elements out
AfterIter_Drained(c) == [c EXCEPT !.items = <<>>]

\* $collection is a reference: into_iter() on it borrows the elements
AfterIter(c) == c

\* the subject and the value are matched and compared by reference
AfterRead(x) == x

After(c, s, v) ==
    [collection |-> AfterIter(c), subject |-> AfterRead(s), val |-> AfterRead(v)]

(***************************************************************************)
(* State machine: one action per macro, one call per step                  *)
(***************************************************************************)
NoCollection == [kind |-> "vec", items |-> <<>>]
NoSubject == [arm |-> "none", inner |-> <<>>]
NoResult == [outcome |-> "none", msg |-> <<>>]

Invocation(m, f, t, c, n, o, s, v, P) ==
    [macro |-> m, form |-> f, text |-> t, collection |-> c, position |-> n,
     op |-> o, subject |-> s, val |-> v, pred |-> P]

Threads == {1, 2}

NoCall ==
    /\ call = Invocation("none", "none", "", NoCollection, 0, "none", NoSubject, <<>>, {})
    /\ result = NoResult
    /\ evals = NoEvals
    /\ after = After(NoCollection, NoSubject, <<>>)

NoTest ==
    /\ body = <<>>
    /\ pc = 1
    /\ status = "idle"
    /\ ran = <<>>
    /\ report = <<>>

NoThreads ==
    /\ ptest = <<>>
    /\ ppc = [t \in Threads |-> "idle"]
    /\ ptmp = <<>>
    /\ pres = <<>>

Init == NoCall /\ NoTest /\ NoThreads

\* A test function calls the macro from the state its set-up left; a panic
\* ends the test, and the next test starts afresh.
Fresh == result.outcome = "none" /\ status = "idle" /\ \A t \in Threads : ppc[t] = "idle"

AssertContains ==
    /\ Fresh
    /\ \E c \in Collections : \E item \in ElemsOf(c) :
        /\ call' = Invocation("assert_contains", "plain", "", c, 0, "none", NoSubject, item, {})
           /\ result' = assert_contains(c, item)
           /\ evals' = contains_evals(c, item, assert_contains(c, item))
           /\ after' = After(c, NoSubject, item)
    /\ UNCHANGED <<testVars, parVars>>

\* assert_contains! as iterators.rs defines it
IteratorsAssertContains ==
    /\ Fresh
    /\ \E c \in Collections : \E item \in ElemsOf(c) :
        /\ call' = Invocation("assert_contains", "iterators", "", c, 0, "none", NoSubject, item, {})
        /\ result' = iterators_assert_contains(c, item)
        /\ evals' = contains_evals(c, item, iterators_assert_contains(c, item))
        /\ after' = After(c, NoSubject, item)
    /\ UNCHANGED <<testVars, parVars>>

AssertAll ==
    /\ Fresh
    /\ \E c \in Collections : \E P \in PredsOf(c) :
        \/ /\ call' = Invocation("assert_all", "plain", "", c, 0, "none", NoSubject, <<>>, P)
              /\ result' = assert_all(c, P)
              /\ evals' = quantifier_evals(assert_all(c, P), FALSE)
              /\ after' = After(c, NoSubject, <<>>)
        \/ \E d \in Descriptions :
           /\ call' = Invocation("assert_all", "desc", d, c, 0, "none", NoSubject, <<>>, P)
              /\ result' = assert_all_desc(c, P, d)
              /\ evals' = quantifier_evals(assert_all_desc(c, P, d), TRUE)
              /\ after' = After(c, NoSubject, <<>>)
    /\ UNCHANGED <<testVars, parVars>>

AssertAny ==
    /\ Fresh
    /\ \E c \in Collections : \E P \in PredsOf(c) :
        \/ /\ call' = Invocation("assert_any", "plain", "", c, 0, "none", NoSubject, <<>>, P)
              /\ result' = assert_any(c, P)
              /\ evals' = quantifier_evals(assert_any(c, P), FALSE)
              /\ after' = After(c, NoSubject, <<>>)
        \/ \E d \in Descriptions :
           /\ call' = Invocation("assert_any", "desc", d, c, 0, "none", NoSubject, <<>>, P)
              /\ result' = assert_any_desc(c, P, d)
              /\ evals' = quantifier_evals(assert_any_desc(c, P, d), TRUE)
              /\ after' = After(c, NoSubject, <<>>)
    /\ UNCHANGED <<testVars, parVars>>

AssertNth ==
    /\ Fresh
    /\ \E c \in Collections : \E n \in Positions : \E o \in Ops : \E v \in ElemsOf(c) :
        /\ call' = Invocation("assert_nth", "cmp", "", c, n, o, NoSubject, v, {})
           /\ result' = assert_nth(c, n, o, v)
           /\ evals' = nth_evals(c, n, assert_nth(c, n, o, v))
           /\ after' = After(c, NoSubject, v)
    /\ UNCHANGED <<testVars, parVars>>

AssertOk ==
    /\ Fresh
    /\ \E t \in ResultTexts : \E r \in Results :
        \/ /\ call' = Invocation("assert_ok", "alone", t, NoCollection, 0, "none", r, <<>>, {})
              /\ result' = assert_ok(t, r)
              /\ evals' = arm_evals(assert_ok(t, r))
              /\ after' = After(NoCollection, r, <<>>)
        \/ \E o \in Ops : \E v \in SameType(r.inner) :
           /\ call' = Invocation("assert_ok", "cmp", t, NoCollection, 0, o, r, v, {})
              /\ result' = assert_ok_cmp(t, r, o, v)
              /\ evals' = arm_cmp_evals(assert_ok(t, r), assert_ok_cmp(t, r, o, v))
              /\ after' = After(NoCollection, r, v)
    /\ UNCHANGED <<testVars, parVars>>

AssertErr ==
    /\ Fresh
    /\ \E t \in ResultTexts : \E r \in Results :
        \/ /\ call' = Invocation("assert_err", "alone", t, NoCollection, 0, "none", r, <<>>, {})
              /\ result' = assert_err(t, r)
              /\ evals' = arm_evals(assert_err(t, r))
              /\ after' = After(NoCollection, r, <<>>)
        \/ \E o \in Ops : \E v \in SameType(r.inner) :
           /\ call' = Invocation("assert_err", "cmp", t, NoCollection, 0, o, r, v, {})
              /\ result' = assert_err_cmp(t, r, o, v)
              /\ evals' = arm_cmp_evals(assert_err(t, r), assert_err_cmp(t, r, o, v))
              /\ after' = After(NoCollection, r, v)
    /\ UNCHANGED <<testVars, parVars>>

AssertSome ==
    /\ Fresh
    /\ \E t \in OptionTexts : \E opt \in Options :
        \/ /\ call' = Invocation("assert_some", "alone", t, NoCollection, 0, "none", opt, <<>>, {})
              /\ result' = assert_some(t, opt)
              /\ evals' = arm_evals(assert_some(t, opt))
              /\ after' = After(NoCollection, opt, <<>>)
        \/ \E o \in Ops : \E v \in InnerVals :
           /\ opt.arm = "Some" => v \in SameType(opt.inner)
           /\ call' = Invocation("assert_some", "cmp", t, NoCollection, 0, o, opt, v, {})
              /\ result' = assert_some_cmp(t, opt, o, v)
              /\ evals' = arm_cmp_evals(assert_some(t, opt), assert_some_cmp(t, opt, o, v))
              /\ after' = After(NoCollection, opt, v)
    /\ UNCHANGED <<testVars, parVars>>

AssertNone ==
    /\ Fresh
    /\ \E t \in OptionTexts : \E opt \in Options :
        /\ call' = Invocation("assert_none", "alone", t, NoCollection, 0, "none", opt, <<>>, {})
           /\ result' = assert_none(t, opt)
           /\ evals' = arm_evals(assert_none(t, opt))
           /\ after' = After(NoCollection, opt, <<>>)
    /\ UNCHANGED <<testVars, parVars>>

\* The ordering macros have three call forms: (l, r), (l, r,) and
\* (l, r, fmt, args...); the trailing-comma arm expands to the plain one.
AssertLt ==
    /\ Fresh
    /\ \E l \in InnerVals : \E r \in SameType(l) :
        \/ /\ call' = Invocation("assert_lt", "plain", "", NoCollection, 0, "<", Operand(l), r, {})
              /\ result' = assert_lt(l, r)
              /\ evals' = ordering_evals(assert_lt(l, r), FALSE)
              /\ after' = After(NoCollection, Operand(l), r)
        \/ /\ call' = Invocation("assert_lt", "trailing", "", NoCollection, 0, "<", Operand(l), r, {})
              /\ result' = assert_lt_trailing(l, r)
              /\ evals' = ordering_evals(assert_lt_trailing(l, r), FALSE)
              /\ after' = After(NoCollection, Operand(l), r)
        \/ \E t \in FormatTexts :
           /\ call' = Invocation("assert_lt", "fmt", t, NoCollection, 0, "<", Operand(l), r, {})
              /\ result' = assert_lt_fmt(l, r, t)
              /\ evals' = ordering_evals(assert_lt_fmt(l, r, t), TRUE)
              /\ after' = After(NoCollection, Operand(l), r)
    /\ UNCHANGED <<testVars, parVars>>

AssertLe ==
    /\ Fresh
    /\ \E l \in InnerVals : \E r \in SameType(l) :
        \/ /\ call' = Invocation("assert_le", "plain", "", NoCollection, 0, "<=", Operand(l), r, {})
              /\ result' = assert_le(l, r)
              /\ evals' = ordering_evals(assert_le(l, r), FALSE)
              /\ after' = After(NoCollection, Operand(l), r)
        \/ /\ call' = Invocation("assert_le", "trailing", "", NoCollection, 0, "<=", Operand(l), r, {})
              /\ result' = assert_le_trailing(l, r)
              /\ evals' = ordering_evals(assert_le_trailing(l, r), FALSE)
              /\ after' = After(NoCollection, Operand(l), r)
        \/ \E t \in FormatTexts :
           /\ call' = Invocation("assert_le", "fmt", t, NoCollection, 0, "<=", Operand(l), r, {})
              /\ result' = assert_le_fmt(l, r, t)
              /\ evals' = ordering_evals(assert_le_fmt(l, r, t), TRUE)
              /\ after' = After(NoCollection, Operand(l), r)
    /\ UNCHANGED <<testVars, parVars>>

AssertGt ==
    /\ Fresh
    /\ \E l \in InnerVals : \E r \in SameType(l) :
        \/ /\ call' = Invocation("assert_gt", "plain", "", NoCollection, 0, ">", Operand(l), r, {})
              /\ result' = assert_gt(l, r)
              /\ evals' = ordering_evals(assert_gt(l, r), FALSE)
              /\ after' = After(NoCollection, Operand(l), r)
        \/ /\ call' = Invocation("assert_gt", "trailing", "", NoCollection, 0, ">", Operand(l), r, {})
              /\ result' = assert_gt_trailing(l, r)
              /\ evals' = ordering_evals(assert_gt_trailing(l, r), FALSE)
              /\ after' = After(NoCollection, Operand(l), r)
        \/ \E t \in FormatTexts :
           /\ call' = Invocation("assert_gt", "fmt", t, NoCollection, 0, ">", Operand(l), r, {})
              /\ result' = assert_gt_fmt(l, r, t)
              /\ evals' = ordering_evals(assert_gt_fmt(l, r, t), TRUE)
              /\ after' = After(NoCollection, Operand(l), r)
    /\ UNCHANGED <<testVars, parVars>>

AssertGe ==
    /\ Fresh
    /\ \E l \in InnerVals : \E r \in SameType(l) :
        \/ /\ call' = Invocation("assert_ge", "plain", "", NoCollection, 0, ">=", Operand(l), r, {})
              /\ result' = assert_ge(l, r)
              /\ evals' = ordering_evals(assert_ge(l, r), FALSE)
              /\ after' = After(NoCollection, Operand(l), r)
        \/ /\ call' = Invocation("assert_ge", "trailing", "", NoCollection, 0, ">=", Operand(l), r, {})
              /\ result' = assert_ge_trailing(l, r)
              /\ evals' = ordering_evals(assert_ge_trailing(l, r), FALSE)
              /\ after' = After(NoCollection, Operand(l), r)
        \/ \E t \in FormatTexts :
           /\ call' = Invocation("assert_ge", "fmt", t, NoCollection, 0, ">=", Operand(l), r, {})
              /\ result' = assert_ge_fmt(l, r, t)
              /\ evals' = ordering_evals(assert_ge_fmt(l, r, t), TRUE)
              /\ after' = After(NoCollection, Operand(l), r)
    /\ UNCHANGED <<testVars, parVars>>

AssertTuple ==
    /\ Fresh
    /\ \E N \in Fields : \E tup \in Tuples : \E o \in Ops : \E v \in ScalarVals :
        /\ call' = Invocation(TupleMacro(N), "cmp", "", NoCollection, N, o,
                              [arm |-> "tuple", inner |-> tup], v, {})
           /\ result' = assert_tuple(N, tup, o, v)
           /\ evals' = tuple_evals(assert_tuple(N, tup, o, v))
           /\ after' = After(NoCollection, [arm |-> "tuple", inner |-> tup], v)
    /\ UNCHANGED <<testVars, parVars>>

\* assert_ok!(r).with_value(v) and assert_some!(o).with_value(v)
ChainWithValue ==
    /\ Fresh
    /\ \E r \in Results \cup Options : \E v \in InnerVals :
        /\ r.arm # "None" => v \in SameType(r.inner)
        /\ call' = Invocation("with_value", "chain", IF r.arm \in {"Ok", "Err"} THEN "&result" ELSE "&option",
                              NoCollection, 0, "==", r, v, {})
           /\ result' = chain_with_value(IF r.arm \in {"Ok", "Err"} THEN "&result" ELSE "&option", r, v)
           /\ evals' = chain_evals(result')
           /\ after' = After(NoCollection, r, v)
    /\ UNCHANGED <<testVars, parVars>>

Next ==
    \/ AssertContains
    \/ IteratorsAssertContains
    \/ AssertAll
    \/ AssertAny
    \/ AssertNth
    \/ AssertOk
    \/ AssertErr
    \/ AssertSome
    \/ AssertNone
    \/ AssertLt
    \/ AssertLe
    \/ AssertGt
    \/ AssertGe
    \/ AssertTuple
    \/ ChainWithValue

Spec == Init /\ [][Next]_vars

(***************************************************************************)
(* A test function with several assertions in sequence                     *)
(* (tuples.rs, tests le_correct / le_incorrect): a panic unwinds out of    *)
(* the function, so the statements after it do not run                     *)
(***************************************************************************)
MaxSteps == 2

TupleOf(x) == [i \in 1..(MaxField + 1) |-> x]

\* one assertion statement: [macro, left, right]
Evaluate(a) ==
    CASE a.macro = "assert_lt" -> assert_lt(a.left, a.right)
      [] a.macro = "assert_0th" -> assert_tuple(0, TupleOf(a.left), "<=", a.right)
      [] a.macro = "assert_contains" ->
             assert_contains([kind |-> "vec", items |-> a.left], a.right)

TestAssertions ==
    [macro : {"assert_lt", "assert_0th"}, left : ScalarVals, right : ScalarVals]

TestBodies == UNION {[1..n -> TestAssertions] : n \in 1..MaxSteps}

TestInit ==
    /\ NoCall
    /\ NoThreads
    /\ body \in TestBodies
    /\ pc = 1
    /\ status = "running"
    /\ ran = [i \in 1..Len(body) |-> 0]
    /\ report = <<>>

\* panic! unwinds: the test function is left at the failing statement
StatusAfter(res) == IF res.outcome = "panic" THEN "panicked" ELSE "running"

RunAssertion ==
    /\ status = "running"
    /\ pc <= Len(body)
    /\ ran' = [ran EXCEPT ![pc] = @ + 1]
    /\ status' = StatusAfter(Evaluate(body[pc]))
    /\ IF Evaluate(body[pc]).outcome = "panic"
       THEN pc' = pc /\ report' = Evaluate(body[pc]).msg
       ELSE pc' = pc + 1 /\ report' = report
    /\ UNCHANGED <<body, callVars, parVars>>

\* the test function returns: the test has passed
FinishTest ==
    /\ status = "running"
    /\ pc > Len(body)
    /\ status' = "passed"
    /\ UNCHANGED <<body, pc, ran, report, callVars, parVars>>

TestNext ==
    \/ RunAssertion
    \/ FinishTest

TestSpec == TestInit /\ [][TestNext]_vars

(***************************************************************************)
(* Test functions on parallel threads (the harness runs each #[test] on    *)
(* its own thread).  An expansion first binds its operands                 *)
(* (match (&$left, &$right); $collection.into_iter()), then decides;       *)
(* everything it binds is a local of the calling function.                 *)
(***************************************************************************)
NoOperands == [left |-> <<>>, right |-> <<>>]

LtAssertions == [macro : {"assert_lt"}, left : ScalarVals, right : ScalarVals]

ContainsAssertions ==
    [macro : {"assert_contains"}, left : SeqsUpTo(ScalarVals, MaxLen), right : ScalarVals]

ParInit ==
    /\ NoCall
    /\ NoTest
    /\ ptest \in [Threads -> LtAssertions] \cup [Threads -> ContainsAssertions]
    /\ ppc = [t \in Threads |-> "start"]
    /\ ptmp = [t \in Threads |-> NoOperands]
    /\ pres = [t \in Threads |-> NoResult]

\* mutant of Slot: the bound operands live in one process-wide place
Slot_Shared(t) == CHOOSE u \in Threads : \A w \in Threads : u <= w

\* left_val, right_val and the iterator are locals: each thread has its own
Slot(t) == t

Bind ==
    \E t \in Threads :
        /\ ppc[t] = "start"
        /\ ptmp' = [ptmp EXCEPT ![Slot(t)] = [left |-> ptest[t].left, right |-> ptest[t].right]]
        /\ ppc' = [ppc EXCEPT ![t] = "bound"]
        /\ UNCHANGED <<ptest, pres, callVars, testVars>>

Decide ==
    \E t \in Threads :
        /\ ppc[t] = "bound"
        /\ pres' = [pres EXCEPT ![t] = Evaluate([macro |-> ptest[t].macro,
                                                  left |-> ptmp[Slot(t)].left,
                                                  right |-> ptmp[Slot(t)].right])]
        /\ ppc' = [ppc EXCEPT ![t] = "done"]
        /\ UNCHANGED <<ptest, ptmp, callVars, testVars>>

ParNext ==
    \/ Bind
    \/ Decide

ParSpec == ParInit /\ [][ParNext]_vars

(***************************************************************************)
(* Properties                                                              *)
(***************************************************************************)
Items == call.collection.items
Passed == result.outcome = "ok"
Panicked == result.outcome = "panic"
Returned == result.outcome \in {"ok", "panic"}

\* C1: assert_contains!(C, x) returns normally iff some element of C
\* compares equal to x and panics otherwise; on the empty container it
\* panics for every x.
C1_ContainsIffMember ==
    call.macro = "assert_contains" =>
        /\ Returned
        /\ Passed <=> \E i \in 1..Len(Items) : PEq(Items[i], call.val)
        /\ Items = <<>> => Panicked

\* a map whose last pair is the item asked for
C1_Witness ==
    /\ call.macro = "assert_contains"
    /\ call.collection.kind = "map"
    /\ Len(Items) = 2
    /\ ~PEq(Items[1], call.val)
    /\ PEq(Items[2], call.val)
    /\ Passed

\* C2: assert_all!(C, P) and assert_all!(C, P, description) return normally
\* iff every element of C satisfies P and panic otherwise; on the empty
\* container they return normally for every P.
C2_AllIffEvery ==
    call.macro = "assert_all" =>
        /\ Returned
        /\ Passed <=> \A i \in 1..Len(Items) : Items[i] \in call.pred
        /\ Items = <<>> => Passed

\* the first element satisfies the predicate, a later one does not
C2_Witness ==
    /\ call.macro = "assert_all"
    /\ call.form = "desc"
    /\ Len(Items) = 2
    /\ Items[1] \in call.pred
    /\ Items[2] \notin call.pred
    /\ Panicked

\* C3: assert_any!(C, P) and assert_any!(C, P, description) return normally
\* iff at least one element of C satisfies P and panic otherwise; on the
\* empty container they panic for every P.
C3_AnyIffSome ==
    call.macro = "assert_any" =>
        /\ Returned
        /\ Passed <=> \E i \in 1..Len(Items) : Items[i] \in call.pred
        /\ Items = <<>> => Panicked

\* only the last element satisfies the predicate
C3_Witness ==
    /\ call.macro = "assert_any"
    /\ call.form = "desc"
    /\ Len(Items) = 2
    /\ Items[1] \notin call.pred
    /\ Items[2] \in call.pred
    /\ Passed

\* C4: assert_nth!(C, i, value op v) panics for every operator when
\* i >= length(C); the != form does not pass because the element is absent.
C4_NthOutOfRangePanics ==
    (call.macro = "assert_nth" /\ call.position >= Len(Items)) => Panicked

\* the != form on a position just past the end of a non-empty collection
C4_Witness ==
    /\ call.macro = "assert_nth"
    /\ call.op = "!="
    /\ Items # <<>>
    /\ call.position = Len(Items)
    /\ Panicked

\* C5: for i < length(C), assert_nth!(C, i, value op v) returns normally iff
\* (C[i] op v) is true under the standard semantics of op, for every value of
\* a PartialEq / PartialOrd type, C[i] being the (i+1)-th element in
\* iteration order.
C5_NthStandardSemantics ==
    (call.macro = "assert_nth" /\ call.position < Len(Items)) =>
        /\ Returned
        /\ Passed <=> Holds(call.op, Items[call.position + 1], call.val)

\* C6: for every Result R exactly one of assert_ok!(R) and assert_err!(R)
\* returns normally and the other panics.
C6_OkXorErr ==
    /\ (call.macro = "assert_ok" /\ call.form = "alone") =>
           /\ Returned
           /\ Passed <=> assert_err(call.text, call.subject).outcome = "panic"
    /\ (call.macro = "assert_err" /\ call.form = "alone") =>
           /\ Returned
           /\ Passed <=> assert_ok(call.text, call.subject).outcome = "panic"

\* assert_err! has panicked on an Ok value, on which assert_ok! passes
C6_Witness ==
    /\ call.macro = "assert_err"
    /\ call.form = "alone"
    /\ call.subject.arm = "Ok"
    /\ Panicked
    /\ assert_ok(call.text, call.subject).outcome = "ok"

\* C7: for every Option O exactly one of assert_some!(O) and assert_none!(O)
\* returns normally and the other panics.
C7_SomeXorNone ==
    /\ (call.macro = "assert_some" /\ call.form = "alone") =>
           /\ Returned
           /\ Passed <=> assert_none(call.text, call.subject).outcome = "panic"
    /\ call.macro = "assert_none" =>
           /\ Returned
           /\ Passed <=> assert_some(call.text, call.subject).outcome = "panic"

\* assert_some! has passed on a Some value, on which assert_none! panics
C7_Witness ==
    /\ call.macro = "assert_some"
    /\ call.form = "alone"
    /\ call.subject.arm = "Some"
    /\ Passed
    /\ assert_none(call.text, call.subject).outcome = "panic"

ExpectedArm ==
    CASE call.macro = "assert_ok" -> "Ok"
      [] call.macro = "assert_err" -> "Err"
      [] call.macro = "assert_some" -> "Some"
      [] OTHER -> "none"

ComparisonForm ==
    call.macro \in {"assert_ok", "assert_err", "assert_some"} /\ call.form = "cmp"

\* C8: in the comparison form of assert_ok!, assert_err! and assert_some!, a
\* subject in the wrong arm makes the call panic for every operator and
\* value, and the panic is the arm-check failure ("<subject> is Ok(_)"), not
\* a comparison failure.
C8_WrongArmPanicsWithArmCheck ==
    (ComparisonForm /\ call.subject.arm # ExpectedArm) =>
        /\ Panicked
        /\ result.msg = <<"assertion failed: (", call.text,
                          " is " \o ExpectedArm \o "(_))\n ", call.text, ": ",
                          DebugEnum(call.subject), "\n">>

\* assert_ok!(Err(x), value != v) with x different from v
C8_Witness ==
    /\ ComparisonForm
    /\ call.macro = "assert_ok"
    /\ call.subject.arm = "Err"
    /\ call.op = "!="
    /\ PNe(call.subject.inner, call.val)
    /\ Panicked

\* C9: in the comparison form of assert_ok!, assert_err! and assert_some!, a
\* subject in the expected arm with inner value x makes the call return
\* normally iff (x op v) is true, for every operator and every x, v of a
\* PartialEq / PartialOrd type.
C9_ExpectedArmStandardSemantics ==
    (ComparisonForm /\ call.subject.arm = ExpectedArm) =>
        /\ Returned
        /\ Passed <=> Holds(call.op, call.subject.inner, call.val)

OrderingOp ==
    CASE call.macro = "assert_lt" -> "<"
      [] call.macro = "assert_le" -> "<="
      [] call.macro = "assert_gt" -> ">"
      [] call.macro = "assert_ge" -> ">="
      [] OTHER -> "none"

\* C10: assert_lt!(l, r) returns normally iff l < r, assert_le! iff l <= r,
\* assert_gt! iff l > r, assert_ge! iff l >= r, and each panics otherwise; at
\* l == r, assert_lt! and assert_gt! panic, assert_le! and assert_ge! return.
C10_OrderingMacros ==
    OrderingOp # "none" =>
        /\ Returned
        /\ Passed <=> Holds(OrderingOp, call.subject.inner, call.val)
        /\ PEq(call.subject.inner, call.val) => (Passed <=> OrderingOp \in {"<=", ">="})

\* assert_lt! on equal operands
C10_Witness ==
    /\ call.macro = "assert_lt"
    /\ call.form = "plain"
    /\ PEq(call.subject.inner, call.val)
    /\ Panicked

Comparable(x, y) == partial_cmp(x, y) # "None"

\* C11: for comparable operands a and b, assert_lt!(a, b) returns normally
\* iff assert_ge!(a, b) panics, and assert_gt!(a, b) returns normally iff
\* assert_le!(a, b) panics.
C11_PassesIffNegationPanics ==
    (OrderingOp # "none" /\ Comparable(call.subject.inner, call.val)) =>
        LET l == call.subject.inner
            r == call.val
        IN  /\ call.macro = "assert_lt" => (Passed <=> assert_ge(l, r).outcome = "panic")
            /\ call.macro = "assert_ge" => (Passed <=> assert_lt(l, r).outcome = "panic")
            /\ call.macro = "assert_gt" => (Passed <=> assert_le(l, r).outcome = "panic")
            /\ call.macro = "assert_le" => (Passed <=> assert_gt(l, r).outcome = "panic")

\* assert_lt! has panicked on equal operands, on which assert_ge! passes
C11_Witness ==
    /\ call.macro = "assert_lt"
    /\ PEq(call.subject.inner, call.val)
    /\ Panicked
    /\ assert_ge(call.subject.inner, call.val).outcome = "ok"

TupleForm == call.macro \in TupleMacros

\* C12: for each N in 0..15 and each operator, the macro named for position
\* N applied to (tuple, value op v) returns normally iff (tuple.N op v) is
\* true and panics otherwise; the field compared is field N and no other
\* field of the tuple influences the outcome.
C12_TupleFieldStandardSemantics ==
    TupleForm =>
        /\ Returned
        /\ call.macro = TupleMacro(call.position)
        /\ Passed <=> Holds(call.op, call.subject.inner[call.position + 1], call.val)

\* the outcome of the (left, right) form of the ordering macro called
PlainForm ==
    LET l == call.subject.inner
        r == call.val
    IN  CASE call.macro = "assert_lt" -> assert_lt(l, r)
          [] call.macro = "assert_le" -> assert_le(l, r)
          [] call.macro = "assert_gt" -> assert_gt(l, r)
          [] call.macro = "assert_ge" -> assert_ge(l, r)

\* C13: for each ordering macro the trailing-comma form (l, r,) has the
\* outcome of the form (l, r): both return normally or both panic, with the
\* same message.
C13_TrailingCommaSameAsPlain ==
    (OrderingOp # "none" /\ call.form = "trailing") => result = PlainForm

\* assert_le!(l, r,) has panicked on l > r
C13_Witness ==
    /\ call.macro = "assert_le"
    /\ call.form = "trailing"
    /\ PGt(call.subject.inner, call.val)
    /\ Panicked
    /\ result.msg # <<>>

\* C14: for each ordering macro the form with a format message passes and
\* fails on the operand pairs on which the form without a message does, and
\* its failure message is the no-message failure text (left then right
\* operand) followed by the formatted text.
C14_FormatFormExtendsPlain ==
    (OrderingOp # "none" /\ call.form = "fmt") =>
        /\ result.outcome = PlainForm.outcome
        /\ Panicked =>
             /\ Len(result.msg) = Len(PlainForm.msg) + 2
             /\ SubSeq(result.msg, 1, Len(PlainForm.msg)) = PlainForm.msg
             /\ result.msg[Len(result.msg) - 1] = ": "
             /\ result.msg[Len(result.msg)] = call.text
             /\ result.msg[9] = Debug(call.subject.inner)
             /\ result.msg[13] = Debug(call.val)

\* assert_gt!(l, r, fmt, args...) has panicked on equal operands
C14_Witness ==
    /\ call.macro = "assert_gt"
    /\ call.form = "fmt"
    /\ PEq(call.subject.inner, call.val)
    /\ Panicked
    /\ call.text # ""

ChainForm == call.macro = "with_value" /\ call.form = "chain"

\* C15: after the stand-alone arm check has passed on an Ok / Some value
\* carrying x, the chained operation "with value v" passes iff x equals v
\* and fails otherwise.
C15_ChainWithValueIffEqual ==
    (ChainForm /\ call.subject.arm \in {"Ok", "Some"}) =>
        /\ Returned
        /\ Passed <=> PEq(call.subject.inner, call.val)
        /\ Panicked <=> ~PEq(call.subject.inner, call.val)

\* the chain has passed on Ok(x) with value x, and assert_ok! passes on it
C15_Witness ==
    /\ ChainForm
    /\ call.subject.arm = "Ok"
    /\ assert_ok(call.text, call.subject).outcome = "ok"
    /\ PEq(call.subject.inner, call.val)
    /\ Passed

\* the condition that the call asserts, on the values given at the call site
AssertedCondition ==
    CASE call.macro = "assert_contains" ->
             \E i \in 1..Len(Items) : PEq(Items[i], call.val)
      [] call.macro = "assert_all" ->
             \A i \in 1..Len(Items) : Items[i] \in call.pred
      [] call.macro = "assert_any" ->
             \E i \in 1..Len(Items) : Items[i] \in call.pred
      [] call.macro = "assert_nth" ->
             /\ call.position < Len(Items)
             /\ Holds(call.op, Items[call.position + 1], call.val)
      [] call.macro = "assert_none" -> call.subject.arm = "None"
      [] call.macro \in {"assert_ok", "assert_err", "assert_some"} ->
             /\ call.subject.arm = ExpectedArm
             /\ call.form = "cmp" => Holds(call.op, call.subject.inner, call.val)
      [] OrderingOp # "none" ->
             Holds(OrderingOp, call.subject.inner, call.val)
      [] TupleForm ->
             Holds(call.op, TupleField(call.position, call.subject.inner), call.val)
      [] ChainForm ->
             /\ call.subject.arm \in {"Ok", "Some"}
             /\ PEq(call.subject.inner, call.val)
      [] OTHER -> TRUE

\* C16: for every assertion macro, whenever a call returns normally the
\* asserted condition held on the values supplied at the call site: the
\* wrapper was in the required arm, the requested position existed, and the
\* chosen operator held between subject and expected value.
C16_ReturnsOnlyIfConditionHeld ==
    Passed => AssertedCondition

EnumArmMacro == call.macro \in {"assert_ok", "assert_err", "assert_some"}

\* C17: in one call of assert_ok!, assert_err! or assert_some!, stand-alone
\* or comparison form, the subject expression is evaluated exactly once.
C17_SubjectEvaluatedOnce ==
    (EnumArmMacro /\ Returned) => evals.subject = 1

ConditionMet(a) ==
    CASE a.macro = "assert_lt" -> PLt(a.left, a.right)
      [] a.macro = "assert_0th" -> PLe(a.left, a.right)
      [] a.macro = "assert_contains" -> \E i \in 1..Len(a.left) : PEq(a.left[i], a.right)

\* C19: in a test body that runs a sequence of assertions, the first
\* assertion whose condition is unmet ends the test, no later assertion of
\* the test is evaluated, and the failing assertion is evaluated once.
C19_FirstUnmetAssertionEndsTest ==
    status \in {"running", "passed", "panicked"} =>
        /\ \A i \in 1..Len(body) : ran[i] <= 1
        /\ \A i \in 1..Len(body) :
               ran[i] = 1 => \A j \in 1..(i - 1) : ConditionMet(body[j])
        /\ status = "panicked" =>
               /\ ran[pc] = 1
               /\ ~ConditionMet(body[pc])
               /\ \A i \in (pc + 1)..Len(body) : ran[i] = 0
        /\ status = "passed" => \A i \in 1..Len(body) : ConditionMet(body[i])

\* C20: for every interleaving of the calls of tests that run in parallel,
\* each call's outcome (return or panic, and the panic message) is its
\* outcome when run alone.
C20_ParallelCallsDoNotInterfere ==
    \A t \in Threads : ppc[t] = "done" => pres[t] = Evaluate(ptest[t])

\* two threads have finished different assertions, one passing and one
\* panicking, and the panicking one started first and finished last
C20_Witness ==
    /\ \A t \in Threads : ppc[t] = "done"
    /\ \E t, u \in Threads :
           /\ pres[t].outcome = "ok"
           /\ pres[u].outcome = "panic"
           /\ pres[u].msg # <<>>
           /\ ptest[t] # ptest[u]

NthFailed == call.macro = "assert_nth" /\ Panicked

\* C21: when assert_nth!(C, i, value op v) fails because position i does not
\* exist, the message is the "collection[i] does not exist" message and
\* carries no item or element value; when it fails because the comparison is
\* false, the message carries the item v and the element C[i]; neither
\* failure is reported with the other's message.
C21_NthFailureKindsHaveOwnMessage ==
    NthFailed =>
        IF call.position >= Len(Items)
        THEN /\ result.msg = <<"assertion failed: (collection[", ToString(call.position),
                               "] ", call.op, " item)\n collection[",
                               ToString(call.position), "] does not exist\n">>
             /\ \A k \in 1..Len(result.msg) : result.msg[k] # " item)\n         item: "
        ELSE /\ Len(result.msg) = 11
             /\ result.msg[5] = " item)\n         item: "
             /\ result.msg[6] = Debug(call.val)
             /\ result.msg[10] = Debug(Items[call.position + 1])
             /\ \A k \in 1..Len(result.msg) : result.msg[k] # "] does not exist\n"

\* assert_nth! has failed at a position past the end of a container that has
\* elements
C21_Witness ==
    /\ NthFailed
    /\ Items # <<>>
    /\ call.position >= Len(Items)
    /\ result.msg[Len(result.msg)] = "] does not exist\n"

QuantifierFailed == call.macro \in {"assert_all", "assert_any"} /\ Panicked

QuantifierHeader ==
    IF call.macro = "assert_all"
    THEN "assertion failed: (all elements of collection match predicate)"
    ELSE "assertion failed: (any element of collection matches predicate)"

\* C22 as stated: when assert_all! or assert_any! fails, the message
\* contains the full container contents and a predicate line: the
\* description if one was supplied, a generic default label in its place if
\* none was.
C22_DescriptionOrDefaultLabel ==
    QuantifierFailed =>
        /\ Len(result.msg) = 5
        /\ result.msg[1] = QuantifierHeader \o "\n  predicate: "
        /\ call.form = "desc" => result.msg[2] = call.text
        /\ call.form = "plain" => result.msg[2] # ""
        /\ result.msg[4] = DebugCollection(call.collection)

\* C22 as amended: when assert_all! or assert_any! fails, the message
\* contains the full container contents; if a description was supplied it
\* is shown as the predicate line, and if none was the message has no
\* predicate line: the header is followed directly by the contents.
C22_DescriptionOnlyIfSupplied ==
    QuantifierFailed =>
        /\ call.form = "desc" =>
               result.msg = <<QuantifierHeader \o "\n  predicate: ", call.text,
                              "\n collection: ", DebugCollection(call.collection), "\n">>
        /\ call.form = "plain" =>
               result.msg = <<QuantifierHeader \o " collection: ",
                              DebugCollection(call.collection), "\n">>

\* assert_any! without a description has failed on a container with elements
C22_Witness ==
    /\ QuantifierFailed
    /\ call.macro = "assert_any"
    /\ call.form = "plain"
    /\ Items # <<>>
    /\ Len(result.msg) = 3

\* a failure whose message shows two values
TwoValueFailure ==
    /\ Panicked
    /\ \/ call.macro = "assert_contains"
       \/ call.macro = "assert_nth" /\ call.position < Len(Items)
       \/ ComparisonForm /\ call.subject.arm = ExpectedArm
       \/ OrderingOp # "none"
       \/ TupleForm

\* the first and the second value rendered in such a message
FirstShown ==
    CASE call.macro = "assert_contains" -> result.msg[2]
      [] call.macro = "assert_nth" -> result.msg[6]
      [] ComparisonForm -> result.msg[4]
      [] OrderingOp # "none" -> result.msg[9]
      [] TupleForm -> result.msg[7]

SecondShown ==
    CASE call.macro = "assert_contains" -> result.msg[4]
      [] call.macro = "assert_nth" -> result.msg[10]
      [] ComparisonForm -> result.msg[6]
      [] OrderingOp # "none" -> result.msg[13]
      [] TupleForm -> result.msg[11]

\* {:?} of the value under test and of the value it is checked against
SubjectRendered ==
    CASE call.macro = "assert_contains" -> DebugCollection(call.collection)
      [] call.macro = "assert_nth" -> Debug(Items[call.position + 1])
      [] TupleForm -> Debug(TupleField(call.position, call.subject.inner))
      [] OTHER -> Debug(call.subject.inner)

ExpectedRendered == Debug(call.val)

\* C23 as stated: in every failure message that shows two values, the
\* actual / subject value is rendered first and the expected value second,
\* for assert_contains!, assert_nth!, the Ok/Err/Some comparison forms,
\* assert_lt!/le!/gt!/ge! and assert_0th! ... assert_15th!.
C23_SubjectFirstExpectedSecond ==
    TwoValueFailure =>
        /\ FirstShown = SubjectRendered
        /\ SecondShown = ExpectedRendered

\* C23 as amended: the Ok/Err/Some comparison forms and assert_lt!/le!/gt!/ge!
\* render the subject first ("left") and the expected value second
\* ("right"); assert_contains!, assert_nth! and assert_0th! ... assert_15th!
\* render the expected value first ("item", "val") and the subject second
\* ("collection", "collection[i]", "tuple.N").
C23_OrderOfRenderedValues ==
    TwoValueFailure =>
        IF ComparisonForm \/ OrderingOp # "none"
        THEN FirstShown = SubjectRendered /\ SecondShown = ExpectedRendered
        ELSE FirstShown = ExpectedRendered /\ SecondShown = SubjectRendered

\* a tuple macro has failed on a field and a value that render differently
C23_Witness ==
    /\ TwoValueFailure
    /\ TupleForm
    /\ SubjectRendered # ExpectedRendered
    /\ result.msg[6] \in {"    val: ", "     val: "}
    /\ FirstShown = ExpectedRendered

\* C24: when assert_contains!(C, x) fails, the message names the missing
\* item x and the full contents of C, item first and collection second.
C24_ContainsFailureNamesItemAndContents ==
    (call.macro = "assert_contains" /\ Panicked) =>
        result.msg = <<"assertion failed: (collection contains item)\n       item: ",
                       Debug(call.val), "\n collection: ",
                       DebugCollection(call.collection), "\n">>

\* assert_contains! has failed on a container of two elements
C24_Witness ==
    /\ call.macro = "assert_contains"
    /\ Panicked
    /\ Len(Items) >= 2
    /\ result.msg[2] = Debug(call.val)

StandAloneForm ==
    call.macro \in {"assert_ok", "assert_err", "assert_some", "assert_none"}
        /\ call.form = "alone"

RequiredArm ==
    CASE call.macro = "assert_ok" -> "Ok(_)"
      [] call.macro = "assert_err" -> "Err(_)"
      [] call.macro = "assert_some" -> "Some(_)"
      [] call.macro = "assert_none" -> "None"

\* C25: when a stand-alone arm check (assert_ok!, assert_err!, assert_some!,
\* assert_none!) fails, the message names the source text of the subject
\* expression together with the required arm, and shows the subject's value.
C25_ArmFailureNamesTextArmAndValue ==
    (StandAloneForm /\ Panicked) =>
        /\ Len(result.msg) = 7
        /\ result.msg[2] = call.text
        /\ result.msg[3] = " is " \o RequiredArm \o ")\n "
        /\ result.msg[4] = call.text
        /\ result.msg[6] = DebugEnum(call.subject)

\* assert_ok!(result) has failed on an Err value
C25_Witness ==
    /\ StandAloneForm
    /\ call.macro = "assert_ok"
    /\ call.text = "result"
    /\ call.subject.arm = "Err"
    /\ Panicked

\* a call of an operator form whose comparison was reached: assert_nth! at an
\* existing position, an Ok/Err/Some comparison on the expected arm, or a
\* tuple macro
OperatorForm ==
    \/ call.macro = "assert_nth" /\ call.position < Len(Items)
    \/ ComparisonForm /\ call.subject.arm = ExpectedArm
    \/ TupleForm

\* the value under test in that call
OperatorSubject ==
    CASE call.macro = "assert_nth" -> Items[call.position + 1]
      [] TupleForm -> TupleField(call.position, call.subject.inner)
      [] OTHER -> call.subject.inner

\* assert_lt!, assert_le!, assert_gt! or assert_ge!, by operator
OrderingMacro(o, l, r) ==
    CASE o = "<"  -> assert_lt(l, r)
      [] o = "<=" -> assert_le(l, r)
      [] o = ">"  -> assert_gt(l, r)
      [] o = ">=" -> assert_ge(l, r)

\* C26: for subject s and expected value v of a PartialOrd type, incomparable
\* pairs included, the "value < v" form of assert_nth!, of
\* assert_ok!/assert_err!/assert_some! and of assert_0th! ... assert_15th!
\* passes iff assert_lt!(s, v) passes, and likewise for <=, > and >=.
C26_OperatorFormsAgreeWithOrderingMacros ==
    (OperatorForm /\ call.op \in {"<", "<=", ">", ">="} /\ Returned) =>
        (Passed <=> OrderingMacro(call.op, OperatorSubject, call.val).outcome = "ok")

Complement(o) ==
    CASE o = "==" -> "!="
      [] o = "!=" -> "=="
      [] o = "<"  -> ">="
      [] o = ">=" -> "<"
      [] o = ">"  -> "<="
      [] o = "<=" -> ">"

\* the outcome of the same macro on the same arguments with operator o
SameCallWith(o) ==
    CASE call.macro = "assert_nth" ->
             assert_nth(call.collection, call.position, o, call.val)
      [] call.macro = "assert_ok" -> assert_ok_cmp(call.text, call.subject, o, call.val)
      [] call.macro = "assert_err" -> assert_err_cmp(call.text, call.subject, o, call.val)
      [] call.macro = "assert_some" -> assert_some_cmp(call.text, call.subject, o, call.val)
      [] TupleForm -> assert_tuple(call.position, call.subject.inner, o, call.val)

\* C27: for totally ordered operands, in assert_nth! at an existing position,
\* in the Ok/Err/Some comparison forms on the expected arm and in
\* assert_0th! ... assert_15th!, exactly one form of each of the pairs
\* (==, !=), (<, >=) and (>, <=) passes on the same subject and value.
C27_OperatorFormsComplementary ==
    (OperatorForm /\ Returned /\ Comparable(OperatorSubject, call.val)) =>
        /\ Passed <=> SameCallWith(Complement(call.op)).outcome = "panic"
        /\ Panicked <=> SameCallWith(Complement(call.op)).outcome = "ok"

\* a tuple macro with "<=" has passed on a field equal to the value, where
\* the ">" form panics
C27_Witness ==
    /\ TupleForm
    /\ call.op = "<="
    /\ PEq(OperatorSubject, call.val)
    /\ Passed
    /\ SameCallWith(">").outcome = "panic"

\* C28: assert_lt!, assert_le!, assert_gt! and assert_ge! evaluate the left
\* and the right operand expression exactly once per call, in every form and
\* on the passing and the failing path, and the values shown in the failure
\* message are the values that were compared.
C28_OrderingOperandsEvaluatedOnce ==
    (OrderingOp # "none" /\ Returned) =>
        /\ evals.subject = 1
        /\ evals.val = 1
        /\ Passed <=> Holds(OrderingOp, call.subject.inner, call.val)
        /\ Panicked =>
               /\ result.msg[9] = Debug(call.subject.inner)
               /\ result.msg[13] = Debug(call.val)

\* assert_ge! with a format message has failed
C28_Witness ==
    /\ call.macro = "assert_ge"
    /\ call.form = "fmt"
    /\ Panicked
    /\ evals.subject = 1
    /\ evals.val = 1

\* the call has a description or format arguments
DescribedForm ==
    \/ call.macro \in {"assert_all", "assert_any"} /\ call.form = "desc"
    \/ OrderingOp # "none" /\ call.form = "fmt"

\* the outcome of the same call without them
UndescribedOutcome ==
    CASE call.macro = "assert_all" -> assert_all(call.collection, call.pred).outcome
      [] call.macro = "assert_any" -> assert_any(call.collection, call.pred).outcome
      [] OTHER -> PlainForm.outcome

\* C29: the description / format arguments of assert_all!, assert_any!,
\* assert_lt!, assert_le!, assert_gt! and assert_ge! are evaluated only on
\* the failing path, never when the assertion passes, and supplying them
\* does not change whether the assertion passes.
C29_DescriptionEvaluatedOnFailureOnly ==
    (DescribedForm /\ Returned) =>
        /\ Passed => evals.text = 0
        /\ evals.text > 0 => Panicked
        /\ result.outcome = UndescribedOutcome

\* assert_all! with a description has passed on a container with elements
C29_Witness ==
    /\ call.macro = "assert_all"
    /\ call.form = "desc"
    /\ Items # <<>>
    /\ Passed
    /\ evals.text = 0

\* C30: for every container and item the assert_contains! of collections.rs
\* and the assert_contains! of iterators.rs both return normally or both
\* panic, and when they panic they produce the same message.
C30_ContainsDefinitionsAgree ==
    (call.macro = "assert_contains" /\ Returned) =>
        /\ call.form = "plain" =>
               result = iterators_assert_contains(call.collection, call.val)
        /\ call.form = "iterators" =>
               result = assert_contains(call.collection, call.val)

\* the assert_contains! of iterators.rs has failed on a map with entries
C30_Witness ==
    /\ call.macro = "assert_contains"
    /\ call.form = "iterators"
    /\ call.collection.kind = "map"
    /\ Items # <<>>
    /\ Panicked
    /\ result.msg = assert_contains(call.collection, call.val).msg

====
